---- MODULE Spec2Model ----
(***************************************************************************)
(* State container of rx-html (src/src/index.ts): createState,             *)
(* makeReducable, makeSelectable.select, createItemState, mapItems, and    *)
(* the template combinator html.                                           *)
(*                                                                         *)
(* A value is a record tagged by its JavaScript type.  Objects, arrays and *)
(* promises carry the identity (id) they were allocated with, because the  *)
(* code compares with === and !==.                                         *)
(***************************************************************************)
EXTENDS Integers, Sequences, FiniteSets, TLC

\* ------------------------------------------------------------------ bounds
\* reduce calls the callers issue in one run
MaxReqs == 2
\* item-states created over the root array in one run
MaxItemStates == 1
\* item-states of one array that are held at the same time (ItemSpec)
MaxSiblings == 2

\* ------------------------------------------------------------------ values
Undef == [t |-> "undefined"]
Null == [t |-> "null"]
Num(n) == [t |-> "num", n |-> n]
Obj(id, fields) == [t |-> "obj", id |-> id, f |-> fields]
Arr(id, elems) == [t |-> "arr", id |-> id, a |-> elems]
\* a Promise object held as a value: settled with v, as fulfilled or rejected
Prom(id, ok, v) == [t |-> "promise", id |-> id, ok |-> ok, v |-> v]
\* no value (a field of a request that has not been written yet)
None == [t |-> "none"]

\* a === b
StrictEq(a, b) ==
  /\ a.t = b.t
  /\ CASE a.t = "num" -> a.n = b.n
       [] a.t \in {"obj", "arr", "promise"} -> a.id = b.id
       [] OTHER -> TRUE

\* val[key] for a val that is neither null nor undefined
Get(val, key) ==
  IF val.t = "obj" /\ key \in DOMAIN val.f THEN val.f[key] ELSE Undef

\* the spread forgotten: { [key]: next }
SpreadOnlyKey(current, key, next, id) == Obj(id, [k \in {key} |-> next])

\* a deep copy in place of the spread: the other fields are copies too
SpreadClone(current, key, next, id) ==
  LET old == IF current.t = "obj" THEN current.f ELSE << >>
  IN  Obj(id, [k \in (DOMAIN old) \cup {key} |->
                 IF k = key THEN next
                 ELSE IF old[k].t \in {"obj", "arr", "promise"}
                      THEN [old[k] EXCEPT !.id = 0] ELSE old[k]])

\* { ...current, [key]: next }, allocated as object id
Spread(current, key, next, id) ==
  LET old == IF current.t = "obj" THEN current.f ELSE << >>
  IN  Obj(id, [k \in (DOMAIN old) \cup {key} |-> IF k = key THEN next ELSE old[k]])

\* ---------------------------------------------------------------- reducers
\* The functions callers pass to reduce.  f is the body, applied at the
\* relative path rel below the node's value; mode is how it returns.
\*   id     x => x
\*   dec    x => x - 1 on a number
\*   inc    x => x + 1 on the number at rel (the objects on the way to it are
\*          rebuilt with spread; a value of another type is returned as it is)
\*   await  async x => { await node.reduce(inner); return x }, where node is
\*          the field on of the reducer and inner its field inner
\* mode sync returns the result, async returns a promise fulfilled with it,
\* throw raises, reject returns a rejected promise.
RECURSIVE IncAt(_, _, _)
IncAt(v, rel, id) ==
  IF rel = << >>
  THEN IF v.t = "num" THEN Num(v.n + 1) ELSE v
  ELSE IF v.t # "obj"
       THEN v
       ELSE Spread(v, Head(rel), IncAt(Get(v, Head(rel)), Tail(rel), id + 1), id)

Body(red, v, id) ==
  CASE red.f = "id" -> v
    [] red.f = "inc" -> IncAt(v, red.rel, id)
    [] red.f = "dec" -> IF v.t = "num" THEN Num(v.n - 1) ELSE v
    [] red.f = "await" -> v

Value(v) == [k |-> "value", v |-> v]
Throw == [k |-> "throw", v |-> None]

\* reducer(v): what the call of the caller's function gives back
UserCall(red, v, id) ==
  CASE red.mode = "sync" -> Value(Body(red, v, id + 1))
    [] red.mode = "async" -> Value(Prom(id, TRUE, Body(red, v, id + 1)))
    [] red.mode = "reject" -> Value(Prom(id, FALSE, None))
    [] red.mode = "throw" -> Throw

\* The reducer that select(key).reduce hands to its source, for the chain of
\* keys in path, applied to the source's current value.
RECURSIVE SelectReduce(_, _, _, _)
SelectReduce(current, path, red, id) ==
  IF path = << >>
  THEN UserCall(red, current, id)
  ELSE IF current = Undef
       THEN Value(current)
       ELSE IF current = Null
            THEN Throw
            ELSE LET key == Head(path)
                     next == SelectReduce(Get(current, key), Tail(path), red, id + 1)
                 IN  IF next.k = "throw"
                     THEN next
                     ELSE IF StrictEq(next.v, Get(current, key))
                          THEN Value(current)
                          ELSE Value(Spread(current, key, next.v, id))

\* the write-back without the replacement: currentItems.map(x => x)
MapItemCopy(currentItems, item, current, id) ==
  IF currentItems.t # "arr" THEN Throw ELSE Value(Arr(id, currentItems.a))

\* only the first identical element replaced, as with indexOf
MapItemFirst(currentItems, item, current, id) ==
  IF currentItems.t # "arr"
  THEN Throw
  ELSE Value(Arr(id, [i \in DOMAIN currentItems.a |->
                        IF /\ StrictEq(currentItems.a[i], item)
                           /\ \A j \in 1 .. (i - 1) : ~StrictEq(currentItems.a[j], item)
                        THEN current ELSE currentItems.a[i]]))

\* currentItems.map(x => x === item ? current : x), of createItemState
MapItem(currentItems, item, current, id) ==
  IF currentItems.t # "arr"
  THEN Throw
  ELSE Value(Arr(id, [i \in DOMAIN currentItems.a |->
                        IF StrictEq(currentItems.a[i], item)
                        THEN current ELSE currentItems.a[i]]))

\* ------------------------------------------------------------- observables
\* select that hands on the value of its source, whatever the key
SliceWhole(v, path) == [k |-> "emit", v |-> v]

\* What a subscriber of source.select(k1)...select(kn) is handed when the
\* source emits v: filter(val => val !== undefined), map(val => val[key]).
RECURSIVE Slice(_, _)
Slice(v, path) ==
  IF path = << >>
  THEN [k |-> "emit", v |-> v]
  ELSE IF v = Undef
       THEN [k |-> "none", v |-> None]
       ELSE IF v = Null
            THEN [k |-> "error", v |-> None]
            ELSE Slice(Get(v, Head(path)), Tail(path))

\* -------------------------------------------------------------------- state
VARIABLES
  init0,    \* initialState, the argument of createState for the root
  post,     \* defaultReducer, its second argument (NoReducer when left out)
  value,    \* value[s]: subject.value of the BehaviorSubject s
  item,     \* item[s]: the item an item-state s was created for
  reqs,     \* the reduce calls so far, in the order they were issued
  log,      \* log[n]: the values handed to the subscriber of node n, in order
  errd,     \* errd[n]: the subscription of node n ended with an error
  late,     \* a subscriber that subscribes in the middle of a run
  mapped,   \* what the subscriber of mapItems(root, x => x) was handed
  nextId,   \* the next object identity
  tpl,      \* the observable a call of html`...` returned
  hcur,     \* hcur[j]: the value the argument stream j emitted last
  hsubs,    \* the subscribers of tpl, in the order they subscribed
  hevs      \* the calls of next on the argument streams so far

vars == <<init0, post, value, item, reqs, log, errd, late, mapped, nextId>>
hvars == <<tpl, hcur, hsubs, hevs>>

\* subject 0 is the root; the others are the item-states over it
ItemSubjects == 1 .. MaxItemStates
SiblingSubjects == 1 .. MaxSiblings
Subjects == {0} \cup ItemSubjects \cup SiblingSubjects

Paths == {<< >>, <<"target">>, <<"sibling">>, <<"target", "leaf">>}
Node(s, p) == [s |-> s, p |-> p]
\* an item-state is selectable too: itemState.select("leaf")
ItemPaths == {<< >>, <<"leaf">>}
Nodes ==
  {Node(0, p) : p \in Paths} \cup {Node(s, p) : s \in Subjects \ {0}, p \in ItemPaths}

\* createState(initialState) as the tests call it
InitialStates ==
  { Num(1),
    Obj(1, [target |-> Obj(2, [leaf |-> Num(0)]), sibling |-> Num(0)]),
    Obj(1, [target |-> Null, sibling |-> Num(0)]),
    Obj(1, [target |-> Undef, sibling |-> Num(0)]),
    Arr(1, <<Num(1), Num(2), Num(3)>>),
    Arr(1, <<Num(2), Num(1), Num(2)>>),
    Null,
    Undef }
\* the nodes a caller takes from a root of this shape
NodesFor(v) ==
  IF v.t \in {"num", "arr", "none"}
  THEN {<< >>}
  ELSE IF v.t = "obj" /\ "target" \notin DOMAIN v.f THEN ItemPaths ELSE Paths

\* the numbers a caller's inc reducer is written for
IncPaths(v) ==
  IF v.t \in {"num", "arr"}
  THEN {<< >>}
  ELSE IF v.t = "obj" /\ "target" \notin DOMAIN v.f
       THEN {<<"leaf">>}
       ELSE {<<"sibling">>, <<"target", "leaf">>}

Reducer(f, rel, mode) == [f |-> f, rel |-> rel, mode |-> mode]
Rels == {<< >>, <<"leaf">>, <<"sibling">>, <<"target", "leaf">>}
Reducers ==
  {Reducer("id", << >>, m) : m \in {"sync", "async"}}
  \cup {Reducer("inc", rel, m) : rel \in Rels, m \in {"sync", "async"}}
  \cup {Reducer("id", << >>, m) : m \in {"throw", "reject"}}

\* the reducer of a write-back is not one of the caller's
NoReducer == Reducer("none", << >>, "sync")

Settled == {"resolved", "rejected"}

\* reduce calls that came from a caller (not the write-back of an item-state)
UserReqs == {i \in DOMAIN reqs : reqs[i].kind = "user"}

\* ---------------------------------------------------------------- mapItems
\* An item-state that createItemState returned: a new State object (obj is
\* its identity) over the item it was created for.
ItemState(obj, it) == [obj |-> obj, item |-> it]

\* the item-states made so far for the subscriber of mapItems
RECURSIVE Created(_)
Created(m) == IF m = << >> THEN 0 ELSE Len(Head(m)) + Created(Tail(m))

\* item-states kept by position from one emission to the next
MapItemStatesKept(items, n) ==
  [i \in DOMAIN items.a |-> ItemState(i, items.a[i])]

\* items.map(item => createItemState(itemsState, item)) and then
\* itemStates.map(itemState => mapping(itemState)), for the mapping x => x;
\* n item-states were made before
MapItemStates(items, n) ==
  [i \in DOMAIN items.a |-> ItemState(n + i, items.a[i])]

\* ------------------------------------------------ BehaviorSubject, subscribe
\* a Subject in place of the BehaviorSubject: nothing is replayed
ReplayNothing(v, p) == << >>

\* subscribe: the BehaviorSubject replays its value through the operators
Replay(v, p) == IF Slice(v, p).k = "emit" THEN <<Slice(v, p).v>> ELSE << >>

\* the nodes with a subscriber from the start: those a caller takes
Taken(n) == n.p \in NodesFor(IF n.s = 0 THEN init0 ELSE item[n.s])

\* select built on a snapshot of its source: only the subject's own
\* subscriber sees subject.next(v)
LogNextRootOnly(n, l, e, s, v) ==
  IF n.s = s /\ n.p = << >> THEN Append(l, v) ELSE l

\* subject.next(v) of subject s, as seen by the subscriber of node n
LogNext(n, l, e, s, v) ==
  IF n.s = s /\ Taken(n) /\ ~e /\ Slice(v, n.p).k = "emit"
  THEN Append(l, Slice(v, n.p).v)
  ELSE l
ErrNext(n, e, s, v) == e \/ (n.s = s /\ Taken(n) /\ Slice(v, n.p).k = "error")

\* subject.next(v) that stores the value and hands it to the subscribers
\* later
NextDeferred(s, v) ==
  /\ value' = [value EXCEPT ![s] = v]
  /\ UNCHANGED <<log, errd, late, mapped>>

\* subject.next(v): the value is stored and handed to every subscriber
Next_(s, v) ==
  /\ value' = [value EXCEPT ![s] = v]
  /\ log' = [n \in Nodes |-> LogNext(n, log[n], errd[n], s, v)]
  /\ errd' = [n \in Nodes |-> ErrNext(n, errd[n], s, v)]
  /\ late' = IF late.on
             THEN [late EXCEPT !.log = LogNext(late.n, late.log, late.err, s, v),
                               !.err = ErrNext(late.n, late.err, s, v)]
             ELSE late
  /\ mapped' = IF s = 0 /\ init0.t = "arr" /\ v.t = "arr"
               THEN Append(mapped, MapItemStates(v, Created(mapped)))
               ELSE mapped

NoNext == UNCHANGED <<value, log, errd, late, mapped>>

Init ==
  /\ init0 \in InitialStates
  /\ post = NoReducer
  /\ value = [s \in Subjects |-> IF s = 0 THEN init0 ELSE None]
  /\ item = [s \in Subjects |-> None]
  /\ reqs = << >>
  /\ log = [n \in Nodes |-> IF n.s = 0 /\ Taken(n) THEN Replay(init0, n.p) ELSE << >>]
  /\ errd = [n \in Nodes |-> n.s = 0 /\ Taken(n) /\ Slice(init0, n.p).k = "error"]
  /\ late = [on |-> FALSE, n |-> Node(0, << >>), at |-> None, pubs |-> 0,
             sync |-> << >>, log |-> << >>, err |-> FALSE]
  /\ mapped = IF init0.t = "arr" THEN <<MapItemStates(init0, 0)>> ELSE << >>
  /\ nextId = Cardinality({1, 2}) + 1   \* ids 1 and 2 are taken by InitialStates
  /\ tpl = None /\ hcur = << >> /\ hsubs = << >> /\ hevs = << >>

\* ------------------------------------------------------------------ reduce
\* One call of reduce.  st is the state of the promise the call returned:
\*   queued    chained on `reducing`, its callback has not run
\*   running   the reducer was called, its result is awaited
\*   post      the defaultReducer was called, its result is awaited
\*   resolved, rejected
\* behind counts the unsettled calls of the same subject when it was issued,
\* base is subject.value as handed to the reducer, res what the reducer
\* returned, next the value it resolved to, posted whether the defaultReducer
\* was called and pres what it returned, waits the call whose promise the
\* reducer awaits before it returns (0 when none), pub whether subject.next was
\* called, after subject.value when the promise settled, and out[n] the
\* values the subscriber of node n was handed in the step that settled it.
Req(s, p, red, kind, it, repl, owner) ==
  [subj |-> s, path |-> p, red |-> red, kind |-> kind,
   item |-> it, repl |-> repl, owner |-> owner,
   behind |-> Cardinality({j \in DOMAIN reqs :
                             reqs[j].subj = s /\ reqs[j].st \notin Settled}),
   st |-> "queued", invoked |-> FALSE, waits |-> 0,
   base |-> None, res |-> None, next |-> None, posted |-> FALSE, pres |-> None,
   pub |-> FALSE, after |-> None,
   out |-> [n \in Nodes |-> << >>]]

\* what each subscriber is handed in this step
Delivered == [n \in Nodes |-> SubSeq(log'[n], Len(log[n]) + 1, Len(log'[n]))]

\* reduce without the chain on `reducing`: the callback runs at once
IsHeadUnchained(i) == reqs[i].st = "queued"

\* only the item-states chain their calls: the root runs a callback at once
IsHeadRootUnchained(i) ==
  /\ reqs[i].st = "queued"
  /\ reqs[i].subj # 0 =>
       \A j \in 1 .. (i - 1) : reqs[j].subj = reqs[i].subj => reqs[j].st \in Settled

\* the promise of the defaultReducer not returned to the chain: a call whose
\* defaultReducer is pending does not hold back the next one
IsHeadPastPost(i) ==
  /\ reqs[i].st = "queued"
  /\ \A j \in 1 .. (i - 1) :
       reqs[j].subj = reqs[i].subj => reqs[j].st \in (Settled \cup {"post"})

\* a queue that lets calls pass a call whose reducer awaits a reduce
IsHeadPastAwaiting(i) ==
  /\ reqs[i].st = "queued"
  /\ \A j \in 1 .. (i - 1) :
       reqs[j].subj = reqs[i].subj => (reqs[j].st \in Settled \/ reqs[j].waits # 0)

\* the promise `reducing` that call i was chained on has settled
IsHead(i) ==
  /\ reqs[i].st = "queued"
  /\ \A j \in 1 .. (i - 1) : reqs[j].subj = reqs[i].subj => reqs[j].st \in Settled

\* the promise `reducing` that call i was chained on is rejected
ChainRejected(i) ==
  \E j \in 1 .. (i - 1) : reqs[j].subj = reqs[i].subj /\ reqs[j].st = "rejected"

\* a makeReducable that ignores the defaultReducer of the root
HasDefaultReducerItemOnly(s) == s # 0

\* if (defaultReducer): createState gives an item-state one, and the root
\* the one it was called with
HasDefaultReducer(s) == s # 0 \/ post # NoReducer

\* the comparison with subject.value dropped
UnchangedNever(s, nextValue) == FALSE

\* subject.value === nextValue
Unchanged(s, nextValue) == StrictEq(value[s], nextValue)

\* the shape a caller writes its reducer for
ShapeOf(s) == IF s = 0 THEN init0 ELSE item[s]

\* state.reduce(reducer) on the node (s, p): chains the call on `reducing`
Issue(s, p, red) ==
  /\ Cardinality(UserReqs) < MaxReqs
  /\ value[s] # None
  /\ p \in NodesFor(ShapeOf(s))
  /\ red.f = "inc" => (p \o red.rel) \in IncPaths(ShapeOf(s))
  /\ reqs' = Append(reqs, Req(s, p, red, "user", None, None, 0))
  /\ UNCHANGED hvars
  /\ UNCHANGED <<init0, mapped, post, value, item, log, errd, late, nextId>>

\* reducing.then(() => Promise.resolve(reducer(subject.value)) ...): the
\* callback runs and calls the reducer
Invoke(i) ==
  /\ IsHead(i)
  /\ ~ChainRejected(i)
  /\ LET r == reqs[i]
         cur == value[r.subj]
         got == IF r.kind = "writeback"
                THEN MapItem(cur, r.item, r.repl, nextId)
                ELSE SelectReduce(cur, r.path, r.red, nextId)
         \* the reducer body ran and called node.reduce(inner)
         inner == r.red.f = "await" /\ Slice(cur, r.path).k = "emit"
         \* only a reducer of the subject itself is awaited by this call
         w == IF inner /\ r.path = << >> THEN Len(reqs) + 1 ELSE 0
         now == IF got.k = "throw"
                THEN [r EXCEPT !.st = "rejected", !.invoked = TRUE,
                               !.base = cur, !.after = cur]
                ELSE [r EXCEPT !.st = "running", !.invoked = TRUE,
                               !.base = cur, !.res = got.v, !.waits = w]
     IN  reqs' = IF inner
                 THEN Append([reqs EXCEPT ![i] = now],
                             Req(r.red.on.s, r.red.on.p, r.red.inner,
                                 "inner", None, None, 0))
                 ELSE [reqs EXCEPT ![i] = now]
  /\ nextId' = nextId + Len(reqs[i].path) + Len(reqs[i].red.rel) + 1
  /\ UNCHANGED hvars
  /\ UNCHANGED <<init0, mapped, post, value, item, log, errd, late>>

\* reducing.then(...) on a rejected `reducing`: the callback never runs and
\* the promise of this call is rejected too
Skip(i) ==
  /\ IsHead(i)
  /\ ChainRejected(i)
  /\ reqs' = [reqs EXCEPT ![i] = [@ EXCEPT !.st = "rejected",
                                          !.after = value[reqs[i].subj]]]
  /\ UNCHANGED hvars
  /\ UNCHANGED <<init0, mapped, post, value, item, log, errd, late, nextId>>

\* .then(nextValue => ...): the reducer's result has resolved
Settle(i) ==
  /\ reqs[i].st = "running"
  /\ reqs[i].waits # 0 => reqs[reqs[i].waits].st \in Settled
  /\ LET r == reqs[i]
         s == r.subj
         nextValue == IF r.res.t = "promise" THEN r.res.v ELSE r.res
     IN  IF \/ r.res.t = "promise" /\ ~r.res.ok
            \/ r.waits # 0 /\ reqs[r.waits].st = "rejected"
         THEN /\ NoNext
              /\ reqs' = [reqs EXCEPT ![i] = [r EXCEPT !.st = "rejected",
                                                       !.after = value[s]]]
         ELSE IF Unchanged(s, nextValue)
         THEN /\ NoNext
              /\ reqs' = [reqs EXCEPT ![i] = [r EXCEPT !.st = "resolved",
                                                       !.next = nextValue,
                                                       !.after = value[s]]]
         ELSE IF HasDefaultReducer(s) /\ s # 0
         THEN \* defaultReducer(nextValue) calls source.reduce(...)
              /\ NoNext
              /\ reqs' = Append([reqs EXCEPT ![i] = [r EXCEPT !.st = "post",
                                                             !.next = nextValue,
                                                             !.posted = TRUE]],
                                Req(0, << >>, NoReducer, "writeback",
                                    item[s], nextValue, i))
         ELSE IF HasDefaultReducer(s)
         THEN \* defaultReducer(nextValue) is the function of the caller
              LET pr == UserCall(post, nextValue, nextId)
              IN  /\ NoNext
                  /\ reqs' = [reqs EXCEPT ![i] =
                       IF pr.k = "throw"
                       THEN [r EXCEPT !.st = "rejected", !.next = nextValue,
                                      !.posted = TRUE, !.after = value[s]]
                       ELSE [r EXCEPT !.st = "post", !.next = nextValue,
                                      !.posted = TRUE, !.pres = pr.v]]
         ELSE /\ Next_(s, nextValue)
              /\ reqs' = [reqs EXCEPT ![i] = [r EXCEPT !.st = "resolved",
                                                       !.next = nextValue,
                                                       !.pub = TRUE,
                                                       !.after = nextValue,
                                                       !.out = Delivered]]
  /\ nextId' = nextId + (IF reqs[i].subj = 0 /\ post # NoReducer
                         THEN Len(post.rel) + 2 ELSE 0)
  /\ UNCHANGED hvars
  /\ UNCHANGED <<init0, post, item>>

\* the call source.reduce(...) that the defaultReducer of call i made
WriteBackOf(i) == CHOOSE w \in DOMAIN reqs : reqs[w].owner = i

\* the comparison of the defaultReducer's result dropped
PostChangedAlways(s, reduced) == TRUE

\* reduced !== subject.value
PostChanged(s, reduced) == ~StrictEq(reduced, value[s])

\* a defaultReducer whose promise does not wait for source.reduce
PostResolvedAtOnce(i) == TRUE

\* the promise the defaultReducer returned has settled: for an item-state it
\* is source.reduce(...).then(() => current)
PostResolved(i) == reqs[i].subj # 0 => reqs[WriteBackOf(i)].st \in Settled

\* .then(reduced => ...): the defaultReducer's result has resolved
PostSettle(i) ==
  /\ reqs[i].st = "post"
  /\ PostResolved(i)
  /\ LET r == reqs[i]
         s == r.subj
         failed == IF s # 0
                   THEN reqs[WriteBackOf(i)].st = "rejected"
                   ELSE r.pres.t = "promise" /\ ~r.pres.ok
         reduced == IF s # 0
                    THEN r.next
                    ELSE IF r.pres.t = "promise" THEN r.pres.v ELSE r.pres
     IN  IF failed
         THEN /\ NoNext
              /\ reqs' = [reqs EXCEPT ![i] = [r EXCEPT !.st = "rejected",
                                                       !.after = value[s]]]
         ELSE IF PostChanged(s, reduced)
         THEN /\ Next_(s, reduced)
              /\ reqs' = [reqs EXCEPT ![i] = [r EXCEPT !.st = "resolved",
                                                       !.pub = TRUE,
                                                       !.after = reduced,
                                                       !.out = Delivered]]
         ELSE /\ NoNext
              /\ reqs' = [reqs EXCEPT ![i] = [r EXCEPT !.st = "resolved",
                                                       !.after = value[s]]]
  /\ UNCHANGED hvars
  /\ UNCHANGED <<init0, post, item, nextId>>

\* mapItems: the items of the emitted array, each of which createItemState is
\* called for
MapItems(items) == {items.a[k] : k \in DOMAIN items.a}

\* createItemState(source, item) over the root, for an item of the array that
\* mapItems was handed; the item-state's subscriber subscribes at once
CreateItemState(s, it) ==
  /\ s \in Subjects \ {0}
  /\ value[s] = None
  /\ \A q \in 1 .. (s - 1) : value[q] # None
  /\ value[0].t = "arr"
  /\ it \in MapItems(value[0])
  /\ item' = [item EXCEPT ![s] = it]
  /\ value' = [value EXCEPT ![s] = it]
  /\ log' = [n \in Nodes |-> IF n.s = s /\ n.p \in NodesFor(it)
                             THEN Replay(it, n.p) ELSE log[n]]
  /\ UNCHANGED hvars
  /\ UNCHANGED <<init0, mapped, post, reqs, errd, late, nextId>>

\* node.subscribe(...) by the late subscriber; at is subject.value then,
\* pubs the number of calls of the subject that had published, and sync what
\* the subscriber was handed before subscribe returned
Subscribe(n) ==
  /\ ~late.on
  /\ value[n.s] # None
  /\ n.p \in NodesFor(ShapeOf(n.s))
  /\ late' = [on |-> TRUE, n |-> n, at |-> value[n.s],
              pubs |-> Cardinality({i \in DOMAIN reqs : reqs[i].subj = n.s /\ reqs[i].pub}),
              sync |-> Replay(value[n.s], n.p),
              log |-> Replay(value[n.s], n.p),
              err |-> Slice(value[n.s], n.p).k = "error"]
  /\ UNCHANGED hvars
  /\ UNCHANGED <<init0, mapped, post, value, item, reqs, log, errd, nextId>>

\* the items createItemState is called with
Items == {Num(n) : n \in 1 .. 4}

Next ==
  \/ \E s \in Subjects, p \in Paths, red \in Reducers : Issue(s, p, red)
  \/ \E i \in DOMAIN reqs : Invoke(i)
  \/ \E i \in DOMAIN reqs : Skip(i)
  \/ \E i \in DOMAIN reqs : Settle(i)
  \/ \E i \in DOMAIN reqs : PostSettle(i)
  \/ \E s \in ItemSubjects, it \in Items : CreateItemState(s, it)
  \/ \E n \in Nodes : Subscribe(n)

Spec == Init /\ [][Next]_<<vars, hvars>>

\* ------------------------------------- createState(initialState, defaultReducer)
\* the defaultReducers a root is created with
PostReducers ==
  { Reducer("id", << >>, "sync"),
    Reducer("inc", << >>, "async"),
    Reducer("dec", << >>, "sync"),
    Reducer("inc", <<"sibling">>, "sync"),
    Reducer("id", << >>, "reject") }

PostInit ==
  /\ init0 \in {v \in InitialStates : v.t = "num" \/ (v.t = "obj" /\ v.f.target.t = "obj")}
  /\ post \in {r \in PostReducers : r.f = "id" \/ r.rel \in IncPaths(init0)}
  /\ value = [s \in Subjects |-> IF s = 0 THEN init0 ELSE None]
  /\ item = [s \in Subjects |-> None]
  /\ reqs = << >>
  /\ log = [n \in Nodes |-> IF n.s = 0 /\ Taken(n) THEN Replay(init0, n.p) ELSE << >>]
  /\ errd = [n \in Nodes |-> FALSE]
  /\ late = [on |-> FALSE, n |-> Node(0, << >>), at |-> None, pubs |-> 0,
             sync |-> << >>, log |-> << >>, err |-> FALSE]
  /\ mapped = IF init0.t = "arr" THEN <<MapItemStates(init0, 0)>> ELSE << >>
  /\ nextId = Cardinality({1, 2}) + 1
  /\ tpl = None /\ hcur = << >> /\ hsubs = << >> /\ hevs = << >>

PostNext ==
  \/ \E p \in Paths, red \in Reducers : Issue(0, p, red)
  \/ \E i \in DOMAIN reqs : Invoke(i)
  \/ \E i \in DOMAIN reqs : Skip(i)
  \/ \E i \in DOMAIN reqs : Settle(i)
  \/ \E i \in DOMAIN reqs : PostSettle(i)

PostSpec == PostInit /\ [][PostNext]_<<vars, hvars>>

\* ------------------------------------------------ item-states of one array
\* createState(initialState) for the arrays mapItems is called on
ItemArrays ==
  { Arr(1, <<Num(1), Num(2), Num(3)>>),
    Arr(1, <<Num(2), Num(1), Num(2)>>),
    Arr(1, <<Obj(2, [leaf |-> Num(0), sibling |-> Num(0)]), Num(1)>>) }

\* the reducers the callers pass to the array and to its item-states
ItemReducers ==
  { Reducer("id", << >>, "sync"),
    Reducer("inc", << >>, "sync"),
    Reducer("inc", << >>, "async"),
    Reducer("inc", <<"leaf">>, "sync"),
    Reducer("id", << >>, "throw") }

ItemInit ==
  /\ init0 \in ItemArrays
  /\ post = NoReducer
  /\ value = [s \in Subjects |-> IF s = 0 THEN init0 ELSE None]
  /\ item = [s \in Subjects |-> None]
  /\ reqs = << >>
  /\ log = [n \in Nodes |-> IF n.s = 0 /\ n.p = << >> THEN Replay(init0, n.p) ELSE << >>]
  /\ errd = [n \in Nodes |-> FALSE]
  /\ late = [on |-> FALSE, n |-> Node(0, << >>), at |-> None, pubs |-> 0,
             sync |-> << >>, log |-> << >>, err |-> FALSE]
  /\ mapped = <<MapItemStates(init0, 0)>>
  /\ nextId = Cardinality({1, 2}) + 1
  /\ tpl = None /\ hcur = << >> /\ hsubs = << >> /\ hevs = << >>

ItemNext ==
  \/ \E s \in Subjects, p \in ItemPaths, red \in ItemReducers : Issue(s, p, red)
  \/ \E i \in DOMAIN reqs : Invoke(i)
  \/ \E i \in DOMAIN reqs : Skip(i)
  \/ \E i \in DOMAIN reqs : Settle(i)
  \/ \E i \in DOMAIN reqs : PostSettle(i)
  \/ \E s \in SiblingSubjects :
       \E it \in (IF value[0].t = "arr" THEN MapItems(value[0]) ELSE {}) :
         CreateItemState(s, it)

ItemSpec == ItemInit /\ [][ItemNext]_<<vars, hvars>>

\* ------------------------------------- a reducer that awaits another reduce
\* async x => { await node.reduce(inner); return x }
AwaitReducer(n, inner) ==
  [f |-> "await", rel |-> << >>, mode |-> "async", on |-> n, inner |-> inner]

\* the reducers of the awaited calls and of the calls issued beside them
InnerReducers == {Reducer("id", << >>, "sync"), Reducer("inc", << >>, "sync")}

ReentrantInit ==
  /\ init0 \in {v \in InitialStates :
                  (v.t = "obj" /\ v.f.target.t = "obj") \/ v = Arr(1, <<Num(1), Num(2), Num(3)>>)}
  /\ post = NoReducer
  /\ value = [s \in Subjects |-> IF s = 0 THEN init0 ELSE None]
  /\ item = [s \in Subjects |-> None]
  /\ reqs = << >>
  /\ log = [n \in Nodes |-> IF n.s = 0 /\ Taken(n) THEN Replay(init0, n.p) ELSE << >>]
  /\ errd = [n \in Nodes |-> FALSE]
  /\ late = [on |-> FALSE, n |-> Node(0, << >>), at |-> None, pubs |-> 0,
             sync |-> << >>, log |-> << >>, err |-> FALSE]
  /\ mapped = IF init0.t = "arr" THEN <<MapItemStates(init0, 0)>> ELSE << >>
  /\ nextId = Cardinality({1, 2}) + 1
  /\ tpl = None /\ hcur = << >> /\ hsubs = << >> /\ hevs = << >>

\* state.reduce(async x => { await node.reduce(inner); return x }) on a
\* subject, for a node taken from a State that exists
IssueAwaiting(s, n, inner) ==
  /\ value[n.s] # None
  /\ Taken(n)
  /\ Issue(s, << >>, AwaitReducer(n, inner))

ReentrantNext ==
  \/ \E s \in Subjects, n \in Nodes, inner \in InnerReducers : IssueAwaiting(s, n, inner)
  \/ \E s \in Subjects, p \in Paths, red \in InnerReducers : Issue(s, p, red)
  \/ \E i \in DOMAIN reqs : Invoke(i)
  \/ \E i \in DOMAIN reqs : Settle(i)
  \/ \E i \in DOMAIN reqs : PostSettle(i)
  \/ \E s \in ItemSubjects, it \in Items : CreateItemState(s, it)

ReentrantSpec == ReentrantInit /\ [][ReentrantNext]_<<vars, hvars>>

\* ------------------------------------------ reducers that resolve, fairness
\* the reducers that resolve without failing
LiveReducers == {r \in Reducers : r.mode \in {"sync", "async"}}

LiveInit ==
  /\ init0 \in {v \in InitialStates :
                  v.t \in {"num", "null"} \/ v = Arr(1, <<Num(1), Num(2), Num(3)>>)}
  /\ post = NoReducer
  /\ value = [s \in Subjects |-> IF s = 0 THEN init0 ELSE None]
  /\ item = [s \in Subjects |-> None]
  /\ reqs = << >>
  /\ log = [n \in Nodes |-> IF n.s = 0 /\ Taken(n) THEN Replay(init0, n.p) ELSE << >>]
  /\ errd = [n \in Nodes |-> n.s = 0 /\ Taken(n) /\ Slice(init0, n.p).k = "error"]
  /\ late = [on |-> FALSE, n |-> Node(0, << >>), at |-> None, pubs |-> 0,
             sync |-> << >>, log |-> << >>, err |-> FALSE]
  /\ mapped = IF init0.t = "arr" THEN <<MapItemStates(init0, 0)>> ELSE << >>
  /\ nextId = Cardinality({1, 2}) + 1
  /\ tpl = None /\ hcur = << >> /\ hsubs = << >> /\ hevs = << >>

LiveNext ==
  \/ \E s \in Subjects, p \in Paths, red \in LiveReducers : Issue(s, p, red)
  \/ \E i \in DOMAIN reqs : Invoke(i)
  \/ \E i \in DOMAIN reqs : Skip(i)
  \/ \E i \in DOMAIN reqs : Settle(i)
  \/ \E i \in DOMAIN reqs : PostSettle(i)
  \/ \E s \in ItemSubjects, it \in Items : CreateItemState(s, it)

\* a callback chained on a settled promise is run by the microtask queue, and
\* the promise of a reducer that resolves does resolve
Progress ==
  \E i \in DOMAIN reqs : Invoke(i) \/ Skip(i) \/ Settle(i) \/ PostSettle(i)

LiveSpec ==
  LiveInit /\ [][LiveNext]_<<vars, hvars>> /\ WF_<<vars, hvars>>(Progress)

\* ==================================================================== html
\* calls of next on the argument streams in one run
MaxEvents == 3
\* subscribers of the template in one run
MaxSubscribers == 2

\* the argument streams: two rxjs Subjects and a State created with 0
Sources == {"a", "b", "state"}
InitialOfSource(j) == IF j = "state" THEN Num(0) ELSE None

\* An observable is a value too: k says how it was built.
\*   subject        a Subject, or a BehaviorSubject when replay
\*   of             of(v)
\*   combineLatest  combineLatest(...c)
\*   map            src.pipe(map(latest => litHtml(parts, ...latest)))
SubjectOf(j) ==
  [t |-> "observable", k |-> "subject", j |-> j, replay |-> InitialOfSource(j) # None]
Of(v) == [t |-> "observable", k |-> "of", v |-> v]

\* isObservable(arg) that knows Subjects only
IsObservableSubjectOnly(arg) == arg.t = "observable" /\ arg.k = "subject"

\* isObservable(arg)
IsObservable(arg) == arg.t = "observable"

\* Array.isArray(arg) that never holds
IsArrayNever(arg) == FALSE

\* Array.isArray(arg)
IsArray(arg) == arg.t = "arr"

RECURSIVE MakeObservable(_)
RECURSIVE MakeItemsObservable(_)
\* makeObservable(arg)
MakeObservable(arg) ==
  IF IsObservable(arg)
  THEN arg
  ELSE IF IsArray(arg)
       THEN MakeItemsObservable(arg.a)
       ELSE Of(arg)

\* makeItemsObservable(args)
MakeItemsObservable(args) ==
  IF Len(args) = 0
  THEN Of(Arr(0, << >>))
  ELSE [t |-> "observable", k |-> "combineLatest",
        c |-> [i \in DOMAIN args |-> MakeObservable(args[i])]]

\* html(parts, ...args); the record keeps the arguments of the call
Html(parts, args) ==
  [t |-> "observable", k |-> "map", parts |-> parts, args |-> args,
   src |-> MakeItemsObservable(args)]

\* litHtml(parts, ...latest)
LitHtml(parts, latest) == [t |-> "template", strings |-> parts, values |-> latest]

\* combineLatest that does not wait for every source
RECURSIVE CombineLatestEager(_, _, _, _)
CombineLatestEager(l, outs, i, acc) ==
  IF i > Len(outs)
  THEN [l |-> l, out |-> acc]
  ELSE IF outs[i] = << >>
       THEN CombineLatestEager(l, outs, i + 1, acc)
       ELSE LET l2 == [l EXCEPT ![i] = Head(outs[i])]
            IN  CombineLatestEager(l2, [outs EXCEPT ![i] = Tail(@)], i,
                                   Append(acc, l2))

\* combineLatest: l[i] is the latest value of source i (None before its
\* first), outs[i] the values source i emits now; the sources are served in
\* order, and each value is followed by an emission of the latest values
\* once every source has one
RECURSIVE CombineLatest(_, _, _, _)
CombineLatest(l, outs, i, acc) ==
  IF i > Len(outs)
  THEN [l |-> l, out |-> acc]
  ELSE IF outs[i] = << >>
       THEN CombineLatest(l, outs, i + 1, acc)
       ELSE LET l2 == [l EXCEPT ![i] = Head(outs[i])]
            IN  CombineLatest(l2, [outs EXCEPT ![i] = Tail(@)], i,
                              IF \A k \in DOMAIN l2 : l2[k] # None
                              THEN Append(acc, l2) ELSE acc)

\* of(v) that completes without a value
OfNothing(v) == << >>

\* of(v): what it emits on subscribe
OfEmits(v) == <<v>>

\* the state of a subscription that holds none
NoState == [l |-> << >>, c |-> << >>]
OnSubscribe == [k |-> "subscribe"]
OnNext(j, v) == [k |-> "next", j |-> j, v |-> v]

\* What a subscription to the observable o, in state st, emits on the event
\* ev (its own subscribe, or next(v) of the source j), and its state after.
RECURSIVE Deliver(_, _, _)
Deliver(o, st, ev) ==
  CASE o.k = "of" ->
         [st |-> NoState,
          out |-> IF ev.k = "subscribe" THEN OfEmits(o.v) ELSE << >>]
    [] o.k = "subject" ->
         [st |-> NoState,
          out |-> IF ev.k = "subscribe"
                  THEN IF o.replay THEN <<hcur[o.j]>> ELSE << >>
                  ELSE IF ev.j = o.j THEN <<ev.v>> ELSE << >>]
    [] o.k = "combineLatest" ->
         LET rs == [i \in DOMAIN o.c |->
                      Deliver(o.c[i],
                              IF ev.k = "subscribe" THEN NoState ELSE st.c[i], ev)]
             l0 == IF ev.k = "subscribe" THEN [i \in DOMAIN o.c |-> None] ELSE st.l
             cb == CombineLatest(l0, [i \in DOMAIN o.c |-> rs[i].out], 1, << >>)
         IN  [st |-> [l |-> cb.l, c |-> [i \in DOMAIN o.c |-> rs[i].st]],
              out |-> [k \in DOMAIN cb.out |-> Arr(0, cb.out[k])]]
    [] o.k = "map" ->
         LET r == Deliver(o.src, st, ev)
         IN  [st |-> r.st,
              out |-> [k \in DOMAIN r.out |-> LitHtml(o.parts, r.out[k].a)]]

\* the argument lists html is called with
Const == Num(9)
Templates ==
  { Html("t0", << >>),
    Html("t1", <<Const>>),
    Html("t2", <<SubjectOf("a")>>),
    Html("t3", <<SubjectOf("a"), Const, SubjectOf("b")>>),
    Html("t4", <<SubjectOf("state"), SubjectOf("a")>>),
    Html("t5", <<SubjectOf("a"), SubjectOf("a")>>),
    Html("t6", <<Arr(0, <<Const, SubjectOf("a"), Null>>)>>),
    Html("t7", <<Arr(0, <<SubjectOf("a"), SubjectOf("b")>>)>>),
    Html("t8", <<Arr(0, << >>), Arr(0, <<Const, Null>>)>>),
    Html("t9", <<Html("inner", << >>)>>),
    Html("t10", <<Html("inner", <<Const>>), SubjectOf("a")>>),
    Html("t11", <<Html("inner", <<SubjectOf("a")>>), SubjectOf("b")>>) }

HtmlInit ==
  /\ tpl \in Templates
  /\ hcur = [j \in Sources |-> InitialOfSource(j)]
  /\ hsubs = << >>
  /\ hevs = << >>
  /\ init0 = Undef
  /\ post = NoReducer
  /\ value = [s \in Subjects |-> None]
  /\ item = [s \in Subjects |-> None]
  /\ reqs = << >>
  /\ log = [n \in Nodes |-> << >>]
  /\ errd = [n \in Nodes |-> FALSE]
  /\ late = [on |-> FALSE, n |-> Node(0, << >>), at |-> None, pubs |-> 0,
             sync |-> << >>, log |-> << >>, err |-> FALSE]
  /\ mapped = IF init0.t = "arr" THEN <<MapItemStates(init0, 0)>> ELSE << >>
  /\ nextId = 0

\* the entries of a subscriber's log for the values vs, emitted at event k
Entries(vs, k) == [x \in DOMAIN vs |-> [ev |-> k, v |-> vs[x]]]

\* tpl.subscribe(...): at is the number of calls of next before it, sync what
\* the subscriber was handed before subscribe returned
HtmlSubscribe ==
  /\ Len(hsubs) < MaxSubscribers
  /\ LET r == Deliver(tpl, NoState, OnSubscribe)
     IN  hsubs' = Append(hsubs, [st |-> r.st, at |-> Len(hevs), sync |-> r.out,
                                 log |-> << >>])
  /\ UNCHANGED <<tpl, hcur, hevs>>
  /\ UNCHANGED vars

\* the number of times the stream j occurs in the argument arg
RECURSIVE Occ(_, _)
RECURSIVE OccSum(_, _)
Occ(arg, j) ==
  CASE arg.t = "arr" -> OccSum(arg.a, j)
    [] arg.t = "observable" /\ arg.k = "map" -> OccSum(arg.args, j)
    [] arg.t = "observable" /\ arg.k = "subject" -> IF arg.j = j THEN 1 ELSE 0
    [] OTHER -> 0
OccSum(c, j) == IF c = << >> THEN 0 ELSE Occ(Head(c), j) + OccSum(Tail(c), j)

\* next(v) of the stream j: of a Subject, whether the template holds it or
\* not, or of the State when it is an argument of the template
SourceNext(j, v) ==
  /\ Len(hevs) < MaxEvents
  /\ InitialOfSource(j) # None => Occ(tpl, j) > 0
  /\ hevs' = Append(hevs, [j |-> j, v |-> v])
  /\ hcur' = [hcur EXCEPT ![j] = v]
  /\ hsubs' = [x \in DOMAIN hsubs |->
                 LET r == Deliver(tpl, hsubs[x].st, OnNext(j, v))
                 IN  [hsubs[x] EXCEPT !.st = r.st,
                                      !.log = @ \o Entries(r.out, Len(hevs) + 1)]]
  /\ UNCHANGED tpl
  /\ UNCHANGED vars

\* the values the argument streams emit
SourceValues == {Num(1), Num(2)}

HtmlNext ==
  \/ HtmlSubscribe
  \/ \E j \in Sources, v \in SourceValues : SourceNext(j, v)

HtmlSpec == HtmlInit /\ [][HtmlNext]_<<vars, hvars>>

\* ============================================================== properties
\* val.k1.k2...kn
RECURSIVE GetPath(_, _)
GetPath(v, p) == IF p = << >> THEN v ELSE GetPath(Get(v, Head(p)), Tail(p))

\* v without the identities of its objects
RECURSIVE Strip(_)
Strip(v) ==
  CASE v.t = "obj" -> [t |-> "obj", f |-> [k \in DOMAIN v.f |-> Strip(v.f[k])]]
    [] v.t = "arr" -> [t |-> "arr", a |-> [k \in DOMAIN v.a |-> Strip(v.a[k])]]
    [] v.t = "promise" -> [t |-> "promise", ok |-> v.ok, v |-> Strip(v.v)]
    [] OTHER -> v

\* v with the value at path p replaced by x (a value on the way that is no
\* object has no fields to keep)
RECURSIVE ReplaceAt(_, _, _)
ReplaceAt(v, p, x) ==
  IF p = << >>
  THEN x
  ELSE LET keys == IF v.t = "obj" THEN DOMAIN v.f ELSE {}
       IN  Obj(0, [k \in keys \cup {Head(p)} |->
                     IF k = Head(p) THEN ReplaceAt(Get(v, k), Tail(p), x) ELSE v.f[k]])

\* the paths of the node at p and of its ancestors
Ancestors(p) == {SubSeq(p, 1, k) : k \in 0 .. Len(p)}

\* q is the path of a node strictly below the node at p
Below(p, q) == Len(q) > Len(p) /\ SubSeq(q, 1, Len(p)) = p

\* some source on the way to the node at p has the value null or undefined
AbsentParent(v, p) ==
  \E k \in 0 .. (Len(p) - 1) : GetPath(v, SubSeq(p, 1, k)) \in {Null, Undef}

\* what the caller's reducer of call i returned for the slice it was handed
Returned(i) ==
  UserCall(reqs[i].red, GetPath(reqs[i].base, reqs[i].path), -10)

\* the value a reducer's result resolves to
Resolved(x) == IF x.t = "promise" THEN x.v ELSE x

\* call i is a caller's reduce whose reducer ran and returned another value
\* than the slice it was handed (makeReducable compares the resolved value,
\* the reducer of select the value as returned)
Changed(i) ==
  /\ reqs[i].kind = "user"
  /\ reqs[i].invoked
  /\ ~AbsentParent(reqs[i].base, reqs[i].path)
  /\ Returned(i).k = "value"
  /\ ~StrictEq(IF reqs[i].path = << >>
               THEN Resolved(Returned(i).v) ELSE Returned(i).v,
               GetPath(reqs[i].base, reqs[i].path))

InitialOf(s) == IF s = 0 THEN init0 ELSE item[s]
Earlier(i) == {j \in 1 .. (i - 1) : reqs[j].subj = reqs[i].subj}
Last(S) == CHOOSE j \in S : \A k \in S : k <= j

\* the value of subject s after k of its calls have published
PublishedAt(s, k) ==
  LET P == {i \in DOMAIN reqs : reqs[i].subj = s /\ reqs[i].pub}
  IN  IF k = 0
      THEN InitialOf(s)
      ELSE reqs[CHOOSE i \in P : Cardinality({j \in P : j <= i}) = k].after

NothingOut(i) == \A n \in Nodes : reqs[i].out[n] = << >>

\* C1: the reduce calls of one subject are applied in the order they were
\* issued and never overlap: a reducer is called only when every earlier call
\* of the subject has settled, and with the value the call before it left (the
\* initial value for the first).  On a root 1, reduce(v => v) followed at once
\* by reduce(v => v + 1) ends with the value 2 and one emission after the
\* initial one.
C1_Serialized ==
  /\ \A i \in DOMAIN reqs :
       reqs[i].invoked =>
         /\ \A j \in Earlier(i) : reqs[j].st \in Settled
         /\ reqs[i].base = IF Earlier(i) = {} THEN InitialOf(reqs[i].subj)
                           ELSE reqs[Last(Earlier(i))].after
  /\ ( /\ init0 = Num(1)
       /\ Len(reqs) = 2
       /\ reqs[1].red.f = "id" /\ reqs[1].red.mode \in {"sync", "async"}
       /\ reqs[2].red.f = "inc" /\ reqs[2].red.mode \in {"sync", "async"}
       /\ reqs[1].st = "resolved" /\ reqs[2].st = "resolved" )
     => /\ value[0] = Num(2)
        /\ log[Node(0, << >>)] = <<Num(1), Num(2)>>

C1_Witness ==
  /\ init0 = Num(1)
  /\ Len(reqs) = 2
  /\ reqs[1].red = Reducer("id", << >>, "async")
  /\ reqs[2].red = Reducer("inc", << >>, "sync")
  /\ reqs[2].behind = 1
  /\ reqs[2].st = "resolved"
  /\ value[0] = Num(2)

\* C2: a caller's reducer, on whatever node of the tree it was issued (root,
\* select-derived node, item-state), is never called while the reducer of an
\* earlier-issued reduce of the same tree has been called and its call has
\* not settled.
C2_TreeSerialized ==
  \A i \in UserReqs : \A j \in UserReqs :
    (i < j /\ reqs[j].invoked) => reqs[i].st \notin {"running", "post"}

\* C3: a reducer that threw or rejected does not stall the queue: the calls
\* of the same subject queued behind it or issued after it are not rejected
\* without their own reducer having been called.
C3_QueueAdvances ==
  \A j \in DOMAIN reqs : \A i \in DOMAIN reqs :
    ( /\ j < i
      /\ reqs[j].subj = reqs[i].subj
      /\ reqs[j].red.mode \in {"throw", "reject"}
      /\ reqs[j].invoked
      /\ reqs[i].st = "rejected" )
    => reqs[i].invoked

\* C4: a reduce whose reducer was called and throws or rejects is rejected,
\* publishes nothing and leaves the subject's value as it was.
C4_FailureSurfaces ==
  \A i \in DOMAIN reqs :
    ( /\ reqs[i].kind = "user"
      /\ reqs[i].invoked
      /\ reqs[i].st \in Settled
      /\ ~AbsentParent(reqs[i].base, reqs[i].path)
      /\ reqs[i].red.mode \in {"throw", "reject"} )
    => /\ reqs[i].st = "rejected"
       /\ ~reqs[i].pub
       /\ reqs[i].after = reqs[i].base
       /\ NothingOut(i)

\* C5: a reduce with the identity reducer x => x, on a root, a select-derived
\* node or an item-state, hands nothing to any subscriber of the tree, leaves
\* the value as it was and writes nothing back to the array.
C5_IdentityNoEmission ==
  \A i \in DOMAIN reqs :
    ( /\ reqs[i].kind = "user"
      /\ reqs[i].red = Reducer("id", << >>, "sync")
      /\ reqs[i].invoked )
    => /\ reqs[i].st \in {"running", "resolved", "rejected"}
       /\ ~reqs[i].pub
       /\ NothingOut(i)
       /\ reqs[i].st \in Settled => reqs[i].after = reqs[i].base
       /\ \A w \in DOMAIN reqs : reqs[w].owner # i

C5_Witness ==
  \E i \in DOMAIN reqs :
    /\ reqs[i].red = Reducer("id", << >>, "sync")
    /\ reqs[i].path = <<"target", "leaf">>
    /\ reqs[i].base.t = "obj"
    /\ reqs[i].st = "resolved"
    /\ \E j \in DOMAIN reqs : j < i /\ reqs[j].pub

\* C6: a reduce on select('sibling') hands nothing to the subscriber of
\* select('target'), and a select-derived node never hands its subscriber
\* the slice it handed it last (stated for reducers that return a plain
\* value).
C6_PathIsolation ==
  (\A i \in DOMAIN reqs : reqs[i].red.mode = "sync") =>
    /\ \A i \in DOMAIN reqs :
         (reqs[i].subj = 0 /\ reqs[i].path = <<"sibling">>)
         => reqs[i].out[Node(0, <<"target">>)] = << >>
    /\ \A n \in Nodes : n.p # << >> =>
         \A k \in 1 .. (Len(log[n]) - 1) : ~StrictEq(log[n][k], log[n][k + 1])

C8_ParentToChildren ==
  \A i \in DOMAIN reqs :
    (reqs[i].subj = 0 /\ reqs[i].st = "resolved" /\ reqs[i].invoked) =>
      \A q \in NodesFor(init0) :
        ( /\ Below(reqs[i].path, q)
          /\ ~AbsentParent(reqs[i].after, q)
          /\ ~errd[Node(0, q)]
          /\ \/ AbsentParent(reqs[i].base, q)
             \/ ~StrictEq(GetPath(reqs[i].base, q), GetPath(reqs[i].after, q)) )
        => reqs[i].out[Node(0, q)] = <<GetPath(reqs[i].after, q)>>

C8_Witness ==
  \E i \in DOMAIN reqs :
    /\ reqs[i].path = << >>
    /\ reqs[i].red = Reducer("inc", <<"target", "leaf">>, "sync")
    /\ reqs[i].st = "resolved"
    /\ reqs[i].out[Node(0, <<"target", "leaf">>)] = <<Num(1)>>
    /\ reqs[i].out[Node(0, <<"target">>)] # << >>

\* C9: a subscriber of a node whose parents are defined is handed exactly
\* one value before subscribe returns, the node's slice of the value its
\* subject published last (of the initial value when nothing was published),
\* and the subject's value is at all times the value published last.
C9_ReplayOnSubscribe ==
  /\ \A s \in Subjects : value[s] # None =>
       value[s] = PublishedAt(s, Cardinality({i \in DOMAIN reqs :
                                                reqs[i].subj = s /\ reqs[i].pub}))
  /\ (late.on /\ ~AbsentParent(PublishedAt(late.n.s, late.pubs), late.n.p))
     => late.sync = <<GetPath(PublishedAt(late.n.s, late.pubs), late.n.p)>>

C9_Witness ==
  /\ late.on
  /\ late.n = Node(0, <<"target", "leaf">>)
  /\ late.pubs = 2
  /\ late.sync = <<Num(2)>>

\* C10: a reduce on a select-derived node while a parent's value is null or
\* undefined is a no-op: it is not rejected, publishes nothing and leaves the
\* root's value as it was.
C10_AbsentParentNoOp ==
  \A i \in DOMAIN reqs :
    ( /\ reqs[i].kind = "user"
      /\ reqs[i].invoked
      /\ AbsentParent(reqs[i].base, reqs[i].path) )
    => /\ reqs[i].st \in {"running", "resolved"}
       /\ ~reqs[i].pub
       /\ reqs[i].st = "resolved" => reqs[i].after = reqs[i].base

\* C11: a resolved reduce on an item-state whose reducer changed the item
\* wrote back to the array once: when the array held the captured item, every
\* element identical to it is replaced by the reducer's result, every other
\* element is kept in place, and the array's subscriber was handed the new
\* array exactly once.  [1,2,3], the item-state for 2 and v => v + 1 give
\* [1,3,3] and one emission after the initial one.
C11_ItemWriteBack ==
  /\ \A i \in UserReqs :
       (reqs[i].subj # 0 /\ reqs[i].st = "resolved" /\ Changed(i)) =>
         /\ reqs[i].out[Node(0, << >>)] = << >>
         /\ \E w \in DOMAIN reqs : reqs[w].owner = i
         /\ LET w == WriteBackOf(i)
                b == reqs[w].base
                a == reqs[w].after
                e == item[reqs[i].subj]
            IN  (b.t = "arr" /\ \E k \in DOMAIN b.a : StrictEq(b.a[k], e)) =>
                  /\ a.t = "arr"
                  /\ DOMAIN a.a = DOMAIN b.a
                  /\ \A k \in DOMAIN b.a :
                       a.a[k] = IF StrictEq(b.a[k], e)
                                THEN Resolved(Returned(i).v) ELSE b.a[k]
                  /\ reqs[w].out[Node(0, << >>)] = <<a>>
  /\ ( /\ Strip(init0) = Strip(Arr(0, <<Num(1), Num(2), Num(3)>>))
       /\ Len(reqs) = 2
       /\ reqs[1].subj # 0 /\ item[reqs[1].subj] = Num(2)
       /\ reqs[1].red.f = "inc" /\ reqs[1].red.mode \in {"sync", "async"}
       /\ reqs[1].st = "resolved" )
     => /\ Strip(value[0]) = Strip(Arr(0, <<Num(1), Num(3), Num(3)>>))
        /\ Len(log[Node(0, << >>)]) = 2

C11_Witness ==
  /\ Strip(init0) = Strip(Arr(0, <<Num(2), Num(1), Num(2)>>))
  /\ Len(reqs) = 2
  /\ reqs[1].subj # 0 /\ item[reqs[1].subj] = Num(2)
  /\ reqs[1].red = Reducer("inc", << >>, "async")
  /\ reqs[1].st = "resolved"
  /\ Strip(value[0]) = Strip(Arr(0, <<Num(3), Num(1), Num(3)>>))
  /\ Len(log[Node(0, << >>)]) = 2

\* what the calls i..Len(reqs) of subject n.s handed the subscriber of n
RECURSIVE OutFrom(_, _)
OutFrom(n, i) ==
  IF i > Len(reqs)
  THEN << >>
  ELSE (IF reqs[i].subj = n.s THEN reqs[i].out[n] ELSE << >>) \o OutFrom(n, i + 1)

\* what the subscriber of n was handed when it subscribed
Replayed(n) ==
  IF n.s = 0
  THEN (IF Taken(n) THEN Replay(init0, n.p) ELSE << >>)
  ELSE (IF value[n.s] = None \/ ~Taken(n) THEN << >> ELSE Replay(item[n.s], n.p))

\* C15: when the promise of a reduce has resolved, every subscriber (whose
\* subscription has not ended) of a node of the subject whose slice the
\* reduce changed has been handed the new slice, for an item-state the
\* write-back to the array has settled too, and a subscriber is handed
\* values only in the step that resolves a reduce: its log is what it was
\* handed on subscribe followed by what the resolving steps handed it.
C15_DeliveredBeforeResolve ==
  /\ \A i \in DOMAIN reqs :
       (reqs[i].st = "resolved" /\ reqs[i].pub) =>
         /\ \A n \in Nodes :
              ( /\ n.s = reqs[i].subj /\ Taken(n) /\ ~errd[n]
                /\ Slice(reqs[i].after, n.p).k = "emit"
                /\ \/ Slice(reqs[i].base, n.p).k # "emit"
                   \/ ~StrictEq(Slice(reqs[i].base, n.p).v,
                                Slice(reqs[i].after, n.p).v) )
              => reqs[i].out[n] = <<Slice(reqs[i].after, n.p).v>>
         /\ \A w \in DOMAIN reqs : reqs[w].owner = i => reqs[w].st \in Settled
  /\ \A i \in DOMAIN reqs : ~reqs[i].pub => NothingOut(i)
  /\ \A n \in Nodes : log[n] = Replayed(n) \o OutFrom(n, 1)

C15_Witness ==
  \E i \in UserReqs :
    /\ reqs[i].subj # 0
    /\ reqs[i].red.mode = "async"
    /\ reqs[i].st = "resolved"
    /\ reqs[i].out[Node(reqs[i].subj, << >>)] # << >>
    /\ reqs[WriteBackOf(i)].out[Node(0, << >>)] # << >>

\* what the defaultReducer of the root gives for the value that call i
\* resolved to
PostResult(i) == UserCall(post, reqs[i].next, -10)

\* C16: on a root created with a defaultReducer, the defaultReducer is called
\* for exactly the reduce calls, on the root or on a select-derived node,
\* whose reducer resolved to another value than the root's current one; what
\* is published is the defaultReducer's result, at most once per reduce, and
\* once when the defaultReducer returns its argument.
C16_PostReducer ==
  \A i \in DOMAIN reqs :
    LET r == reqs[i]
    IN  /\ r.posted <=> ( /\ r.st \in {"post", "resolved", "rejected"}
                          /\ r.next # None
                          /\ ~StrictEq(r.next, r.base) )
        /\ Len(r.out[Node(0, << >>)]) <= 1
        /\ ~r.posted => ~r.pub
        /\ (r.posted /\ r.st = "resolved") =>
             /\ r.pub <=> ~StrictEq(Resolved(PostResult(i).v), r.base)
             /\ r.pub => /\ Strip(r.after) = Strip(Resolved(PostResult(i).v))
                         /\ r.out[Node(0, << >>)] = <<r.after>>
             /\ StrictEq(Resolved(PostResult(i).v), r.next)
                  => r.out[Node(0, << >>)] = <<r.next>>

C16_Witness ==
  \E i \in DOMAIN reqs :
    /\ post = Reducer("inc", <<"sibling">>, "sync")
    /\ reqs[i].path = <<"target", "leaf">>
    /\ reqs[i].red = Reducer("inc", << >>, "sync")
    /\ reqs[i].st = "resolved"
    /\ reqs[i].posted
    /\ GetPath(reqs[i].after, <<"sibling">>) = Num(1)
    /\ GetPath(reqs[i].after, <<"target", "leaf">>) = Num(1)
    /\ reqs[i].out[Node(0, << >>)] = <<reqs[i].after>>

\* the values on the way from v to the node at p are objects that hold the
\* next key
PlainPath(v, p) ==
  \A k \in 0 .. (Len(p) - 1) :
    /\ GetPath(v, SubSeq(p, 1, k)).t = "obj"
    /\ p[k + 1] \in DOMAIN GetPath(v, SubSeq(p, 1, k)).f

\* C18: a resolved reduce on a select-derived node that changed its slice
\* replaced every object on the way from the root to the slice by a new
\* object with the same fields, in which every field but the one on the way
\* is the very value, identity included, that it was before.
C18_RebuildOnlyPath ==
  \A i \in DOMAIN reqs :
    ( /\ reqs[i].path # << >>
      /\ reqs[i].st = "resolved"
      /\ Changed(i)
      /\ PlainPath(reqs[i].base, reqs[i].path) )
    => \A k \in 0 .. (Len(reqs[i].path) - 1) :
         LET old == GetPath(reqs[i].base, SubSeq(reqs[i].path, 1, k))
             new == GetPath(reqs[i].after, SubSeq(reqs[i].path, 1, k))
         IN  /\ new.t = "obj"
             /\ new.id # old.id
             /\ \A j \in DOMAIN reqs : j # i /\ reqs[j].base # None =>
                  \A q \in Paths : GetPath(reqs[j].base, q).t = "obj"
                     => (GetPath(reqs[j].base, q).id = new.id => j > i)
             /\ DOMAIN new.f = DOMAIN old.f
             /\ \A f \in DOMAIN old.f :
                  f # reqs[i].path[k + 1] => new.f[f] = old.f[f]

C18_Witness ==
  /\ init0.t = "obj"
  /\ init0.f.target.t = "obj"
  /\ Len(reqs) = 2
  /\ reqs[1].path = <<"target", "leaf">>
  /\ reqs[1].red = Reducer("inc", << >>, "sync")
  /\ reqs[2].path = <<"sibling">>
  /\ reqs[2].red = Reducer("inc", << >>, "sync")
  /\ reqs[2].st = "resolved"
  /\ Changed(2)
  /\ reqs[2].after.id # reqs[2].base.id
  /\ reqs[2].after.f.target = reqs[2].base.f.target
  /\ reqs[2].base.f.target.id # init0.f.target.id

\* C19: a subscriber that subscribed to a select-derived node while a parent
\* of the node was null or undefined was handed nothing before subscribe
\* returned and no error, and holds the node's slice as the value handed last
\* once the parents are defined.
C19_EmptyUntilDefined ==
  (late.on /\ late.n.p # << >> /\ AbsentParent(late.at, late.n.p)) =>
    /\ late.sync = << >>
    /\ ~late.err
    /\ ~AbsentParent(value[late.n.s], late.n.p) =>
         /\ late.log # << >>
         /\ late.log[Len(late.log)] = GetPath(value[late.n.s], late.n.p)

\* C20: a resolved reduce on a select-derived node whose reducer returned a
\* promise left at the key path the value the promise resolved to, handed no
\* subscriber a promise, and published nothing when that value is the slice
\* the reducer was handed.
C20_AsyncSelectReduce ==
  \A i \in DOMAIN reqs :
    ( /\ reqs[i].kind = "user"
      /\ reqs[i].path # << >>
      /\ reqs[i].red.mode = "async"
      /\ reqs[i].st = "resolved"
      /\ ~AbsentParent(reqs[i].base, reqs[i].path) )
    => /\ GetPath(reqs[i].after, reqs[i].path) = Resolved(Returned(i).v)
       /\ \A n \in Nodes : \A k \in DOMAIN reqs[i].out[n] :
            reqs[i].out[n][k].t # "promise"
       /\ StrictEq(Resolved(Returned(i).v), GetPath(reqs[i].base, reqs[i].path))
            => (~reqs[i].pub /\ NothingOut(i))

\* ------------------------------------------- defaultReducer, properties
\* what the defaultReducer of call i resolved to
PostValue(i) == Resolved(reqs[i].pres)

\* C31: when the defaultReducer of a root resolves to a value identical to
\* the value the root held when the reduce began, the reduce publishes
\* nothing and the root keeps its value, although the reducer's own result
\* was another value.
C31_PostBackToCurrent ==
  \A i \in DOMAIN reqs :
    ( /\ reqs[i].subj = 0 /\ reqs[i].posted /\ reqs[i].st = "resolved"
      /\ StrictEq(PostValue(i), reqs[i].base) )
    => /\ ~StrictEq(reqs[i].next, reqs[i].base)
       /\ ~reqs[i].pub
       /\ NothingOut(i)
       /\ reqs[i].after = reqs[i].base

C31_Witness ==
  /\ init0 = Num(1) /\ post = Reducer("dec", << >>, "sync")
  /\ Len(reqs) = 2
  /\ reqs[1].red.f = "inc" /\ reqs[1].st = "resolved" /\ reqs[1].posted
  /\ reqs[1].next = Num(2) /\ PostValue(1) = Num(1)
  /\ reqs[2].st = "resolved"
  /\ value[0] = Num(1)
  /\ log[Node(0, << >>)] = <<Num(1)>>

\* the call of subject 0 issued next after call j
NextOnRoot(j) ==
  {i \in DOMAIN reqs :
     /\ i > j /\ reqs[i].subj = 0
     /\ \A k \in (j + 1) .. (i - 1) : reqs[k].subj # 0}

\* C32: an asynchronous defaultReducer is part of the serialized cycle.  The
\* reducer of a later reduce of the root is not called before the
\* defaultReducer of an earlier one has resolved and its result was
\* published, and the next reducer is handed the value the defaultReducer
\* left, never the raw result of the reducer before it.
C32_PostInCycle ==
  \A j \in DOMAIN reqs :
    (reqs[j].subj = 0 /\ reqs[j].posted /\ post.mode = "async") =>
      /\ \A i \in DOMAIN reqs :
           (i > j /\ reqs[i].subj = 0 /\ reqs[i].invoked) => reqs[j].st \in Settled
      /\ reqs[j].st = "resolved" =>
           /\ reqs[j].after = PostValue(j)
           /\ value[0] = PostValue(j) \/ \E i \in NextOnRoot(j) : reqs[i].st \in Settled
      /\ \A i \in NextOnRoot(j) :
           (reqs[i].invoked /\ reqs[j].st = "resolved") =>
             /\ reqs[i].base = PostValue(j)
             /\ ~StrictEq(PostValue(j), reqs[j].next) => ~StrictEq(reqs[i].base, reqs[j].next)

C32_Witness ==
  /\ init0 = Num(1) /\ post = Reducer("inc", << >>, "async")
  /\ Len(reqs) = 2
  /\ reqs[1].red.f = "inc" /\ reqs[1].st = "resolved"
  /\ reqs[1].next = Num(2) /\ PostValue(1) = Num(3)
  /\ reqs[2].invoked /\ reqs[2].base = Num(3) /\ reqs[2].behind > 0

\* ------------------------------------------------ item-states, properties
\* the reduce calls issued by a caller on an item-state
ItemReqs == {i \in UserReqs : reqs[i].subj # 0}

\* C21: every reduce on an item-state, a second or later one included, calls
\* the reducer with the item captured when the item-state was created, and a
\* result identical to that item leaves everything as it is: no write-back,
\* nothing published.
C21_CapturedItem ==
  \A i \in ItemReqs :
    reqs[i].invoked =>
      /\ reqs[i].base = item[reqs[i].subj]
      /\ (reqs[i].st = "resolved" /\ StrictEq(reqs[i].next, item[reqs[i].subj]))
           => (~reqs[i].posted /\ ~reqs[i].pub /\ NothingOut(i))

\* the write-backs: the calls source.reduce(...) of the item-states
WriteBacks == {w \in DOMAIN reqs : reqs[w].kind = "writeback"}

\* the positions of the array v that hold an element identical to it
Matches(v, it) == {k \in DOMAIN v.a : StrictEq(v.a[k], it)}

\* C22: an item-state write that finds no element of the array identical to
\* the captured item is a no-op: the array keeps its value, its subscribers
\* are handed nothing, and the reduce completes without an error.
C22_NoMatchNoOp ==
  \A w \in WriteBacks :
    (reqs[w].st \in Settled /\ reqs[w].invoked /\ Matches(reqs[w].base, reqs[w].item) = {})
      => /\ reqs[w].st = "resolved"
         /\ ~reqs[w].pub
         /\ reqs[w].after = reqs[w].base
         /\ NothingOut(w)
         /\ reqs[reqs[w].owner].st # "rejected"

\* C23: when several elements of the array are identical to the captured
\* item, a changing reduce on the item-state replaces all of them in one
\* publication of the array, and the other elements keep value and place.
C23_DuplicatesReplaced ==
  \A w \in WriteBacks :
    LET b == reqs[w].base
        a == reqs[w].after
        M == Matches(b, reqs[w].item)
    IN  (reqs[w].st = "resolved" /\ Cardinality(M) > 1) =>
          /\ a.t = "arr" /\ DOMAIN a.a = DOMAIN b.a
          /\ \A k \in M : a.a[k] = reqs[reqs[w].owner].next
          /\ \A k \in (DOMAIN b.a) \ M : a.a[k] = b.a[k]
          /\ reqs[w].pub
          /\ reqs[w].out[Node(0, << >>)] = <<a>>
          /\ \A x \in WriteBacks : reqs[x].owner = reqs[w].owner => x = w
          /\ reqs[reqs[w].owner].out[Node(0, << >>)] = << >>

C23_Witness ==
  /\ Strip(init0) = Strip(Arr(0, <<Num(2), Num(1), Num(2)>>))
  /\ \E w \in WriteBacks :
       /\ reqs[w].st = "resolved"
       /\ Matches(reqs[w].base, reqs[w].item) = {1, 3}
       /\ reqs[reqs[w].owner].st = "resolved"
       /\ reqs[reqs[w].owner].next = Num(3)
  /\ Strip(value[0]) = Strip(Arr(0, <<Num(3), Num(1), Num(3)>>))
  /\ Len(log[Node(0, << >>)]) = 2

\* C24: an item-state is selectable.  The subscriber of itemState.select(k)
\* is handed the field k of the captured item first, and a resolved reduce on
\* itemState.select(k) whose reducer changed the field wrote back once: while
\* the array held the captured item, that element is replaced by a new object
\* with the field k changed and every other field kept, the other elements
\* keep value and place, and the array's subscriber was handed the new array
\* exactly once.
C24_ItemSelectable ==
  /\ \A s \in Subjects \ {0} :
       item[s].t = "obj" =>
         /\ log[Node(s, <<"leaf">>)] # << >>
         /\ Head(log[Node(s, <<"leaf">>)]) = Get(item[s], "leaf")
  /\ \A i \in ItemReqs :
       (reqs[i].path = <<"leaf">> /\ reqs[i].st = "resolved" /\ Changed(i)) =>
         /\ Cardinality({w \in WriteBacks : reqs[w].owner = i}) = 1
         /\ reqs[i].out[Node(0, << >>)] = << >>
         /\ LET w == WriteBackOf(i)
                b == reqs[w].base
                a == reqs[w].after
                e == item[reqs[i].subj]
                M == Matches(b, e)
            IN  M # {} =>
                  /\ a.t = "arr" /\ DOMAIN a.a = DOMAIN b.a
                  /\ \A k \in (DOMAIN b.a) \ M : a.a[k] = b.a[k]
                  /\ \A k \in M :
                       /\ a.a[k].t = "obj" /\ a.a[k].id # e.id
                       /\ DOMAIN a.a[k].f = DOMAIN e.f
                       /\ Strip(a.a[k].f.leaf) = Strip(Returned(i).v)
                       /\ \A x \in (DOMAIN e.f) \ {"leaf"} : a.a[k].f[x] = e.f[x]
                  /\ reqs[w].out[Node(0, << >>)] = <<a>>

C24_Witness ==
  \E i \in ItemReqs :
    /\ reqs[i].path = <<"leaf">> /\ reqs[i].red = Reducer("inc", << >>, "sync")
    /\ reqs[i].st = "resolved"
    /\ item[reqs[i].subj].t = "obj"
    /\ log[Node(reqs[i].subj, <<"leaf">>)] = <<Num(0), Num(1)>>
    /\ Len(log[Node(0, << >>)]) = 2
    /\ value[0].a[1].t = "obj"
    /\ value[0].a[1].f = [leaf |-> Num(1), sibling |-> Num(0)]
    /\ value[0].a[2] = Num(1)

\* C25: the subscriber of mapItems is handed exactly one sequence for every
\* emission of the array, the replay on subscribe included; the sequence has
\* the length of the emitted array and its i-th entry is the mapping applied
\* to an item-state created for the i-th element in that emission: no
\* item-state appears in two emissions or at two positions.
C25_MapItemsPerEmission ==
  LET arrs == log[Node(0, << >>)]
  IN  /\ Len(mapped) = Len(arrs)
      /\ \A k \in DOMAIN mapped :
           /\ Len(mapped[k]) = Len(arrs[k].a)
           /\ \A i \in DOMAIN mapped[k] : mapped[k][i].item = arrs[k].a[i]
      /\ \A k1, k2 \in DOMAIN mapped :
           \A i1 \in DOMAIN mapped[k1], i2 \in DOMAIN mapped[k2] :
             mapped[k1][i1].obj = mapped[k2][i2].obj => (k1 = k2 /\ i1 = i2)

C25_Witness ==
  /\ Cardinality(UserReqs) > 1
  /\ Len(mapped) > Cardinality(UserReqs)
  /\ Len(mapped[1]) = Len(init0.a)
  /\ mapped[2][1].item # mapped[1][1].item
  /\ mapped[3][1].item = mapped[2][1].item
  /\ mapped[3][1].obj # mapped[2][1].obj

\* the value the subscriber of node n was handed last
LastOf(n) == log[n][Len(log[n])]

\* C26: a derived node holds no value of its own.  Whenever no reduce is
\* pending, the value the subscriber of a derived node was handed last is the
\* projection of the parent's current value: the root's value at the path for
\* a chain of select, the slice of an element of the array's current value
\* for an item-state and its selections.
C26_NoOwnValue ==
  (\A i \in DOMAIN reqs : reqs[i].st \in Settled) =>
    \A n \in Nodes :
      (log[n] # << >> /\ ~errd[n] /\ (n.s # 0 \/ n.p # << >>)) =>
        IF n.s = 0
        THEN Slice(value[0], n.p).k = "emit" => LastOf(n) = Slice(value[0], n.p).v
        ELSE /\ value[0].t = "arr"
             /\ \E k \in DOMAIN value[0].a :
                  /\ Slice(value[0].a[k], n.p).k = "emit"
                  /\ LastOf(n) = Slice(value[0].a[k], n.p).v

\* the calls i and j are changing reduces, both resolved, on two item-states
\* of the root's first array for two different elements, and neither result
\* is the other's element
Independent(i, j) ==
  /\ i \in ItemReqs /\ j \in ItemReqs
  /\ reqs[i].subj # reqs[j].subj
  /\ reqs[i].st = "resolved" /\ reqs[j].st = "resolved"
  /\ Changed(i) /\ Changed(j)
  /\ LET ei == item[reqs[i].subj]
         ej == item[reqs[j].subj]
     IN  /\ Matches(init0, ei) # {} /\ Matches(init0, ej) # {}
         /\ ~StrictEq(ei, ej)
         /\ ~StrictEq(reqs[i].next, ej) /\ ~StrictEq(reqs[j].next, ei)

\* C29: no update is lost between item-states.  When changing reduces on two
\* item-states made from the same array for two different elements have both
\* resolved, however their steps were interleaved, both write-backs were
\* published and the array holds each reducer's result at the positions of
\* its element and the other elements as they were.
C29_NoLostUpdate ==
  \A i, j \in DOMAIN reqs :
    Independent(i, j) =>
      /\ \A x \in {i, j} :
           /\ reqs[x].pub
           /\ \E w \in WriteBacks :
                reqs[w].owner = x /\ reqs[w].st = "resolved" /\ reqs[w].pub
      /\ value[0].t = "arr" /\ DOMAIN value[0].a = DOMAIN init0.a
      /\ \A k \in DOMAIN init0.a :
           value[0].a[k] =
             IF StrictEq(init0.a[k], item[reqs[i].subj]) THEN reqs[i].next
             ELSE IF StrictEq(init0.a[k], item[reqs[j].subj]) THEN reqs[j].next
             ELSE init0.a[k]

\* the two reduces overlap: the call issued first was still pending when the
\* second one wrote back, so the write-backs ran in the opposite order
C29_Witness ==
  /\ Len(reqs) > 3
  /\ Independent(1, 2)
  /\ reqs[WriteBackOf(2)].st = "resolved"
  /\ WriteBackOf(2) < WriteBackOf(1)
  /\ item[reqs[1].subj].t = "obj"
  /\ value[0].a[1] # init0.a[1] /\ value[0].a[2] = Num(2)

\* C30: the order of an item-state write.  The array's subscriber is handed
\* the new array before the item-state's subscriber is handed the new item,
\* the promise of the item-state's reduce resolves after both, and when the
\* write-back fails the item-state publishes nothing.
C30_WriteOrder ==
  \A i \in ItemReqs :
    LET s == reqs[i].subj
        W == {w \in WriteBacks : reqs[w].owner = i}
    IN  /\ reqs[i].posted => Cardinality(W) = 1
        /\ \A w \in W :
             \* nothing reaches the item-state before the write-back has settled
             /\ reqs[i].st = "post" =>
                  (~reqs[i].pub /\ NothingOut(i) /\ value[s] = reqs[i].base)
             \* the item is published after the array was
             /\ reqs[i].pub =>
                  /\ reqs[w].st = "resolved" /\ reqs[w].pub
                  /\ reqs[w].out[Node(0, << >>)] = <<reqs[w].after>>
             \* the promise resolves with the item published
             /\ reqs[i].st = "resolved" =>
                  /\ reqs[w].st = "resolved"
                  /\ reqs[i].pub
                  /\ reqs[i].out[Node(s, << >>)] = <<reqs[i].next>>
                  /\ value[s] = reqs[i].next \/ \E j \in ItemReqs : j > i /\ reqs[j].subj = s
             \* a failed write-back: the promise is rejected, nothing published
             /\ reqs[w].st = "rejected" =>
                  /\ reqs[i].st \in {"post", "rejected"}
                  /\ ~reqs[i].pub /\ NothingOut(i)
                  /\ reqs[i].st = "rejected" => reqs[i].after = reqs[i].base

\* the array's subscriber has the new array, the item-state's subscriber has
\* not been handed the new item yet and the promise is pending
C30_Witness ==
  \E i \in ItemReqs :
    /\ reqs[i].st = "post" /\ reqs[i].next = Num(3)
    /\ reqs[WriteBackOf(i)].st = "resolved"
    /\ Strip(init0) = Strip(Arr(0, <<Num(1), Num(2), Num(3)>>))
    /\ Len(log[Node(0, << >>)]) = 2
    /\ Strip(log[Node(0, << >>)][2]) = Strip(Arr(0, <<Num(1), Num(3), Num(3)>>))
    /\ log[Node(reqs[i].subj, << >>)] = <<Num(2)>>

\* the write-back was rejected and the item-state's reduce with it
C30_FailedWitness ==
  \E i \in ItemReqs :
    /\ reqs[i].st = "rejected" /\ reqs[i].posted
    /\ reqs[WriteBackOf(i)].st = "rejected"
    /\ log[Node(reqs[i].subj, << >>)] = <<item[reqs[i].subj]>>

\* ----------------------------------------------------- progress, properties
\* the root value v after the reducer of call r alone: the slice at the
\* node's path replaced by the reducer's resolved result (a node with an
\* absent parent keeps v), and for an item-state the elements identical to
\* its item replaced by the result
ApplyReducer(v, r) ==
  IF r.subj = 0
  THEN IF AbsentParent(v, r.path)
       THEN v
       ELSE ReplaceAt(v, r.path, Resolved(Body(r.red, GetPath(v, r.path), 0)))
  ELSE IF v.t # "arr"
       THEN v
       ELSE Arr(0, [k \in DOMAIN v.a |->
                      IF StrictEq(v.a[k], item[r.subj])
                      THEN Resolved(Body(r.red, item[r.subj], 0)) ELSE v.a[k]])

\* the reducers of the callers' calls 1 .. k applied one after the other to
\* the initial value, in the order the calls were issued
RECURSIVE Sequential(_)
Sequential(k) ==
  IF k = 0
  THEN init0
  ELSE IF reqs[k].kind = "user"
       THEN ApplyReducer(Sequential(k - 1), reqs[k])
       ELSE Sequential(k - 1)

\* every reduce issued so far has resolved, and the root holds the reducers'
\* sequential result
Completed ==
  /\ \A i \in DOMAIN reqs : reqs[i].st = "resolved"
  /\ Strip(value[0]) = Strip(Sequential(Len(reqs)))

\* C27: when every reducer and defaultReducer resolves without failing and
\* none waits for another reduce of its tree (the reducers of LiveSpec), every
\* reduce that was issued eventually completes, its promise resolved, and the
\* root's final value is the sequential application of the reducers in the
\* order the calls were issued.
C27_EventuallyCompleted == <>[]Completed

\* the calls of the root whose reducer is running and awaits a reduce that
\* was issued on the same root: on the root or a node selected from it, or on
\* an item-state whose write-back into the root has been issued
Reentrant ==
  {i \in DOMAIN reqs :
     /\ reqs[i].subj = 0 /\ reqs[i].waits # 0
     /\ \/ reqs[reqs[i].waits].subj = 0
        \/ \E x \in WriteBacks : reqs[x].owner = reqs[i].waits}

\* C28: a reducer running on a root that awaits another reduce issued on the
\* same root (directly, through a node selected from it, or through the
\* write-back of an item-state) never returns: the inner call is queued
\* behind the outer one, neither completes, and every reduce issued on the
\* root after the outer one stays pending.
C28_ReentrantDeadlock ==
  \A i \in Reentrant :
    LET w == reqs[i].waits
    IN  /\ reqs[i].st = "running"
        /\ reqs[w].st \notin Settled
        /\ reqs[w].subj = 0 => reqs[w].behind > 0
        /\ \A j \in DOMAIN reqs :
             (j > i /\ reqs[j].subj = 0) => (reqs[j].st = "queued" /\ ~reqs[j].invoked)
        /\ value[0] = reqs[i].base

C28_Witness ==
  \E i \in Reentrant :
    /\ \E x \in WriteBacks : reqs[x].owner = reqs[i].waits /\ reqs[x].st = "queued"
    /\ reqs[reqs[i].waits].st = "post"
    /\ \E j \in UserReqs : j > i /\ reqs[j].subj = 0 /\ reqs[j].st = "queued"

\* a reducer that awaits a reduce of another tree returns
C28_OtherTreeWitness ==
  \E i \in DOMAIN reqs :
    /\ reqs[i].subj = 0 /\ reqs[i].waits # 0
    /\ reqs[i].st = "resolved" /\ reqs[reqs[i].waits].st = "resolved"

\* ------------------------------------------------------- html, properties
\* the argument holds no stream
Plain(arg) == \A j \in Sources : Occ(arg, j) = 0

Max(S) == CHOOSE m \in S : \A k \in S : k <= m
NextsOf(j, lo, hi) == {m \in (lo + 1) .. hi : hevs[m].j = j}

\* the value a subscription made after t0 calls of next has last seen from
\* the stream j when k calls were made (None when it has seen none)
Seen(j, t0, k) ==
  IF NextsOf(j, t0, k) # {}
  THEN hevs[Max(NextsOf(j, t0, k))].v
  ELSE IF InitialOfSource(j) = None
       THEN None
       ELSE IF NextsOf(j, 0, t0) # {}
            THEN hevs[Max(NextsOf(j, 0, t0))].v
            ELSE InitialOfSource(j)

\* the latest value of the argument arg for that subscription: of a stream
\* what it emitted last, of an array the array of its elements' latest values,
\* of a template the TemplateResult of its arguments' latest values, of a
\* plain value the value; None while a stream in it has emitted nothing
RECURSIVE LatestArg(_, _, _)
LatestArg(arg, t0, k) ==
  CASE arg.t = "arr" ->
         LET ls == [i \in DOMAIN arg.a |-> LatestArg(arg.a[i], t0, k)]
         IN  IF \A i \in DOMAIN ls : ls[i] # None THEN Arr(0, ls) ELSE None
    [] arg.t = "observable" /\ arg.k = "map" ->
         LET ls == [i \in DOMAIN arg.args |-> LatestArg(arg.args[i], t0, k)]
         IN  IF \A i \in DOMAIN ls : ls[i] # None
             THEN LitHtml(arg.parts, ls) ELSE None
    [] arg.t = "observable" /\ arg.k = "subject" -> Seen(arg.j, t0, k)
    [] OTHER -> arg

\* what the subscriber s was handed at the k-th call of next
At(s, k) == SelectSeq(s.log, LAMBDA e : e.ev = k)

\* C12: a subscriber of html`...` is handed nothing, on subscribe or on a
\* call of next, while some argument stream has not produced a value; once
\* every argument has one, it is handed one TemplateResult for each new value
\* of an argument (one for each place the stream that emitted occurs at), and
\* the values of the TemplateResult handed last are the latest values of all
\* the arguments, in the order of the arguments.
C12_FanIn ==
  \A x \in DOMAIN hsubs :
    LET s == hsubs[x]
    IN  /\ s.sync = IF LatestArg(tpl, s.at, s.at) = None
                    THEN << >> ELSE <<LatestArg(tpl, s.at, s.at)>>
        /\ \A k \in (s.at + 1) .. Len(hevs) :
             LET e == At(s, k)
                 now == LatestArg(tpl, s.at, k)
                 before == LatestArg(tpl, s.at, k - 1)
                 n == Occ(tpl, hevs[k].j)
             IN  /\ (now = None \/ n = 0) => e = << >>
                 /\ (now # None /\ n > 0) =>
                      /\ Len(e) >= 1 /\ Len(e) <= n
                      /\ e[Len(e)].v = now
                 /\ (before # None /\ n > 0) => Len(e) = n
                 /\ \A m \in DOMAIN e :
                      /\ e[m].v.strings = tpl.parts
                      /\ Len(e[m].v.values) = Len(tpl.args)

C12_Witness ==
  /\ tpl.parts = "t3"
  /\ Len(hsubs) = 1
  /\ hsubs[1].at = 0
  /\ Len(hevs) = 3
  /\ hevs[1].j = "a" /\ hevs[2].j = "b" /\ hevs[3].j = "a"
  /\ Len(hsubs[1].log) = 2
  /\ hsubs[1].log[2].v.values = <<hevs[3].v, Const, hevs[2].v>>

\* everything the subscriber s was handed, with the number of calls of next
\* made when it was handed
AllEntries(s) == Entries(s.sync, s.at) \o s.log

\* the argument is a stream, not built by html
IsStream(arg) == arg.t = "observable" /\ arg.k = "subject"

\* some stream element of the array arr has given the subscription nothing
Waiting(arr, t0, k) ==
  \E i \in DOMAIN arr.a : IsStream(arr.a[i]) /\ Seen(arr.a[i].j, t0, k) = None

\* C13: for an argument that is an array of streams and plain values, a
\* subscriber is handed nothing while a stream element has produced no value;
\* every TemplateResult holds at the argument's place an array as long as the
\* argument, with the plain elements as given and each stream element's
\* latest value, in the order of the elements; and each update of an element,
\* once all have a value, hands the subscriber one TemplateResult.
C13_ArrayFanIn ==
  \A x \in DOMAIN hsubs : \A p \in DOMAIN tpl.args :
    LET s == hsubs[x]
        arr == tpl.args[p]
    IN  arr.t = "arr" =>
          /\ Waiting(arr, s.at, s.at) => s.sync = << >>
          /\ \A k \in (s.at + 1) .. Len(hevs) :
               /\ Waiting(arr, s.at, k) => At(s, k) = << >>
               /\ ( /\ LatestArg(tpl, s.at, k) # None
                    /\ Occ(arr, hevs[k].j) = 1
                    /\ Occ(tpl, hevs[k].j) = 1 )
                  => Len(At(s, k)) = 1
          /\ \A m \in DOMAIN AllEntries(s) :
               LET a == AllEntries(s)[m].v.values[p]
                   k == AllEntries(s)[m].ev
               IN  /\ a.t = "arr"
                   /\ Len(a.a) = Len(arr.a)
                   /\ \A i \in DOMAIN arr.a :
                        /\ arr.a[i].t \notin {"arr", "observable"}
                             => a.a[i] = arr.a[i]
                        /\ (IsStream(arr.a[i]) /\ Occ(tpl, arr.a[i].j) = 1)
                             => a.a[i] = Seen(arr.a[i].j, s.at, k)

C13_Witness ==
  /\ tpl.parts = "t6"
  /\ Len(hsubs) = 1
  /\ hsubs[1].at = 0
  /\ Len(hevs) = 2
  /\ hevs[1].j = "a" /\ hevs[1].v = Num(1) /\ hevs[2].j = "a" /\ hevs[2].v = Num(2)
  /\ Len(hsubs[1].log) = 2
  /\ hsubs[1].log[2].v.values = <<Arr(0, <<Const, Num(2), Null>>)>>

\* no stream anywhere in the argument
RECURSIVE NoObservable(_)
NoObservable(arg) ==
  /\ arg.t # "observable"
  /\ arg.t = "arr" => \A i \in DOMAIN arg.a : NoObservable(arg.a[i])

\* C14: a template without arguments, or with plain values only, hands each
\* subscriber one TemplateResult before subscribe returns, holding the values
\* as given, and nothing afterwards whatever the streams around it emit; all
\* its subscribers are handed equal results.
C14_ConstantTemplate ==
  (\A p \in DOMAIN tpl.args : NoObservable(tpl.args[p])) =>
    /\ \A x \in DOMAIN hsubs :
         /\ hsubs[x].sync = <<LitHtml(tpl.parts, tpl.args)>>
         /\ hsubs[x].log = << >>
    /\ \A x \in DOMAIN hsubs : \A y \in DOMAIN hsubs :
         hsubs[x].sync = hsubs[y].sync

C14_Witness ==
  /\ tpl.parts = "t1"
  /\ Len(hevs) = MaxEvents
  /\ Len(hsubs) = 2
  /\ hsubs[1].at = 0
  /\ hsubs[2].at = MaxEvents
  /\ hsubs[2].sync = <<LitHtml("t1", <<Const>>)>>

\* the argument is an observable that html returned
IsTemplate(arg) == arg.t = "observable" /\ arg.k = "map"

\* C17: for an argument that is itself an html template, a subscriber of the
\* outer template is handed nothing while the inner has emitted nothing, one
\* result before subscribe returns when every argument (the inner's too) is
\* plain, and at least one result each time the inner emits once all
\* arguments have a value; every result holds a TemplateResult of the inner
\* at the argument's place, the one handed last the inner's latest.
C17_NestedTemplate ==
  \A x \in DOMAIN hsubs : \A p \in DOMAIN tpl.args :
    LET s == hsubs[x]
        inner == tpl.args[p]
    IN  IsTemplate(inner) =>
          /\ LatestArg(inner, s.at, s.at) = None => s.sync = << >>
          /\ Plain(tpl) => s.sync = <<LatestArg(tpl, s.at, s.at)>>
          /\ \A k \in (s.at + 1) .. Len(hevs) :
               /\ LatestArg(inner, s.at, k) = None => At(s, k) = << >>
               /\ ( /\ LatestArg(tpl, s.at, k) # None
                    /\ Occ(inner, hevs[k].j) > 0 )
                  => /\ At(s, k) # << >>
                     /\ At(s, k)[Len(At(s, k))].v.values[p]
                          = LatestArg(inner, s.at, k)
          /\ \A m \in DOMAIN AllEntries(s) :
               /\ AllEntries(s)[m].v.values[p].t = "template"
               /\ AllEntries(s)[m].v.values[p].strings = inner.parts

C17_Witness ==
  /\ tpl.parts = "t11"
  /\ Len(hsubs) = 1
  /\ hsubs[1].at = 0
  /\ Len(hevs) = 3
  /\ hevs[1].j = "a" /\ hevs[1].v = Num(1) /\ hevs[2].j = "b" /\ hevs[3].j = "a"
  /\ hevs[3].v = Num(2)
  /\ Len(hsubs[1].log) = 2
  /\ hsubs[1].log[2].v.values[1] = LitHtml("inner", <<Num(2)>>)

====
